---------------------------- MODULE Spec2Model ----------------------------
(***************************************************************************)
(* Model of the custom Channel[G] (a bounded blocking queue built from a   *)
(* mutex and a condition variable):                                        *)
(*   channel/examples/custom_channel/constructor.go   NewChannel           *)
(*   unnamed/part_004                                 Send, Receive        *)
(*   channel/examples/custom_channel/close.go         Close                *)
(*                                                                         *)
(* Every method holds cond.L from its first line to its return, except     *)
(* while it is parked inside cond.Wait().  The code between two such       *)
(* points runs under the mutex, so it is one atomic step here: a call      *)
(* step runs from Lock() to the first Wait() or to the return, a wake      *)
(* step runs from the return of Wait() to the next Wait() or the return.   *)
(*                                                                         *)
(* Model of the custom Mutex[T] (a value owned by a monitor goroutine):    *)
(*   sync/mutex/custom_mutex/mutex.go, constructor.go   Mutex, NewMutex    *)
(*   channel/examples/custom_mutex/get.go               Get                *)
(* m.read, m.write and m.stop are unbuffered channels: a send and the      *)
(* matching receive of the monitor's select are one joint step.            *)
(*                                                                         *)
(* Each structure has its own specification; the other one stays as its    *)
(* constructor left it.                                                    *)
(***************************************************************************)
EXTENDS Integers, Sequences, FiniteSets, TLC

(* ------------------------------ bounds -------------------------------- *)
NProcs == 3      \* goroutines calling into one channel
MaxOps == 4      \* calls issued in one behaviour
MaxCap == 2      \* largest capacity passed to NewChannel

Procs  == 1..NProcs
Values == {7, 8} \* messages passed to Send
Zero   == 0      \* the zero value of G (the unassigned named result)

VARIABLES
  store,      \* ch.store    : the list of buffered messages, front first
  capacity,   \* ch.capacity
  close,      \* ch.close
  notify,     \* ch.cond     : goroutines parked in Wait(), not yet woken
  pc,         \* where each goroutine is: "idle", "Send_wait", "Recv_wait"
  msg,        \* the argument of each goroutine's Send in progress
  ret,        \* what each goroutine's last finished call returned
  cap0,       \* history: the capacity NewChannel was called with
  nops,       \* history: number of calls issued so far
  pushed,     \* history: Send arguments in the order they were appended
  popped,     \* history: Receive results in the order they were dequeued
  closedAt,   \* history: Len(pushed) when Close succeeded, -1 while open
  seen        \* history: what the call in progress (or last) went through

vars == <<store, capacity, close, notify, pc, msg, ret,
          cap0, nops, pushed, popped, closedAt, seen>>

chan == <<store, capacity, close>>

(* ------------------------------ Mutex[T] ------------------------------ *)
MValues    == {10, 55}   \* values passed to Mutex.Send
InitValues == {-1}       \* values passed to NewMutexWithValue

VARIABLES
  data,        \* m.data
  loop,        \* the monitor goroutine: "select", "reply", "assign", "exited"
  responeChan, \* the monitor's responeChan: the caller that owns it, 0 if none
  value,       \* the monitor's value, received from m.write
  mpc,         \* each caller: "idle", "Get_send", "Get_recv", "Send_send",
               \* "Close_send"
  marg,        \* the argument of each caller's Send in progress
  mret,        \* what each caller's last finished call returned
  made,        \* history: the constructor call that built the monitor
  mops,        \* history: number of calls issued so far
  served,      \* history: number of requests the monitor has accepted
  written,     \* history: the values of the write requests accepted
  lastW,       \* history: the last write request accepted: who and what
  stopBy       \* history: the caller whose Close has returned, 0 if none

mvars == <<data, loop, responeChan, value, mpc, marg, mret,
           made, mops, served, written, lastW, stopBy>>

(* --------------------------- return values ---------------------------- *)
NoRet       == [op |-> "none",    val |-> Zero, ok |-> FALSE]
SendOk      == [op |-> "Send",    val |-> Zero, ok |-> TRUE]
SendClosed  == [op |-> "Send",    val |-> Zero, ok |-> FALSE]
CloseOk     == [op |-> "Close",   val |-> Zero, ok |-> TRUE]
CloseClosed == [op |-> "Close",   val |-> Zero, ok |-> FALSE]
RecvClosed  == [op |-> "Receive", val |-> Zero, ok |-> FALSE]
RecvOk(m)   == [op |-> "Receive", val |-> m,    ok |-> TRUE]

(* ------------------------ container/list, Cond ------------------------ *)
PushFront(s, v) == <<v>> \o s
PushBack(s, v) == Append(s, v)

Front(s) == Head(s)

KeepFront(s) == s
RemoveFront(s) == Tail(s)

SendWaitsOffByOne(len, cap) == len = cap + 1
SendNeverWaits(len, cap) == FALSE
SendWaits(len, cap) == len = cap

RecvWaits(len) == len = 0

WidenBy2(cap) == cap + 2
Widen(cap) == cap + 1

NarrowBy0(cap) == cap
Narrow(cap) == cap - 1

\* cond.Broadcast(): every goroutine parked in Wait() is woken
NoBroadcast(parked) == parked
Broadcast(parked) == {}

\* the "if ch.close" at the head of Send, of Receive and of Close
SendIgnoresClose(c) == FALSE
SendSeesClosed(c) == c

RecvIgnoresClose(c) == FALSE
RecvSeesClosed(c) == c

CloseIgnoresClose(c) == FALSE
CloseSeesClosed(c) == c

(* ------------------------- NewMutex and friends ----------------------- *)
NoMRet      == [op |-> "none",  val |-> Zero]
MSendRet    == [op |-> "Send",  val |-> Zero]
MCloseRet   == [op |-> "Close", val |-> Zero]
MGetRet(v)  == [op |-> "Get",   val |-> v]
NoWrite     == [who |-> 0, val |-> Zero]

\* m := &Mutex[T]{...}: data is the zero value of T
NewMutex == Zero

\* m := NewMutex[T](); m.data = value
NewMutexDropsValue(v) == NewMutex
NewMutexWithValue(v) == v

\* responeChan <- m.data
ReplyZero(d) == Zero
ReplyStale(d) == made.arg
ReplyValue(d) == d

\* m.data = value
AssignKeeps(d, v) == d
Assign(d, v) == v

\* the for around the select: after a case the monitor selects again
LoopOnce == "exited"
LoopAgain == "select"

\* case <-m.stop: return
OnStopGoesOn == "select"
OnStop == "exited"

\* the monitor goroutine is started and no caller has called yet
MutexStarted ==
  /\ loop = "select"
  /\ responeChan = 0
  /\ value = Zero
  /\ mpc = [p \in Procs |-> "idle"]
  /\ marg = [p \in Procs |-> Zero]
  /\ mret = [p \in Procs |-> NoMRet]
  /\ mops = 0
  /\ served = 0
  /\ written = {}
  /\ lastW = NoWrite
  /\ stopBy = 0

MutexFresh ==
  /\ made = [ctor |-> "NewMutex", arg |-> Zero]
  /\ data = NewMutex
  /\ MutexStarted

(* ------------------------------ Publisher ----------------------------- *)
MaxCalls == 5    \* Publisher methods called in one behaviour

Topics == {"news", "sports"}
Msgs   == {"hi", "x"}

\* capacity of a subscriber's mailbox: make(chan string, 1)
MailboxCap == 1

VARIABLES
  subscribers,  \* p.subscribers: topic -> list of mailboxes (map[string][]chan string)
  mailbox,      \* the channels made by Subscribe, by number: [buf, closed]
  readers,      \* goroutines that hold the RWMutex for reading
  writer,       \* the goroutine that has announced Lock() and waits or holds; 0: none
  bpc,          \* where each goroutine is in its Publisher call
  bcall,        \* the call each goroutine is in
  subscriber,   \* Publish's local slice: the mailboxes it still has to send to
  delivered,    \* ghost: the mailboxes the goroutine's Publish has sent to, in order
  last,         \* ghost: the call that returned last, with what it returned
  got,          \* ghost: what has been received from each mailbox, in order
  calls,        \* ghost: number of calls made
  closedT,      \* ghost: topics closed by CloseTopic and not created again since
  bpanic        \* a goroutine has panicked

bvars == <<subscribers, mailbox, readers, writer, bpc, bcall, subscriber,
           delivered, last, got, calls, closedT, bpanic>>

NoCall == [op |-> "none", topic |-> "", msg |-> "", ch |-> 0]
CreateTopicCall(t) == [op |-> "CreateTopic", topic |-> t, msg |-> "", ch |-> 0]
SubscribeCall(t) == [op |-> "Subscribe", topic |-> t, msg |-> "", ch |-> 0]
PublishCall(t, m) == [op |-> "Publish", topic |-> t, msg |-> m, ch |-> 0]
CloseTopicCall(t) == [op |-> "CloseTopic", topic |-> t, msg |-> "", ch |-> 0]
CloseSubscriberCall(t, c) ==
  [op |-> "CloseSubscriber", topic |-> t, msg |-> "", ch |-> c]

\* results: the error (nil, or its text) and the channel Subscribe returns
\* (0 is the nil channel)
Nil == [err |-> "nil", ch |-> 0]
TopicNotFound == [err |-> "topic not found", ch |-> 0]
SubscriberNotFound == [err |-> "subscriber not found", ch |-> 0]
SubscribedNil(c) == [err |-> "nil", ch |-> 0]
Subscribed(c) == [err |-> "nil", ch |-> c]

\* a call that has returned: the call, its result, and for a Publish the
\* mailboxes it has sent to
Returned(a, r, d) == [call |-> a, ret |-> r, sent |-> d]
NoneReturned == Returned(NoCall, Nil, <<>>)

\* what a receive on a closed and empty mailbox reports
EndOfStream == "closed"

\* the subscriber's loop over the mailbox has ended
Ended(seq) == IF seq = <<>> THEN FALSE ELSE seq[Len(seq)] = EndOfStream

\* make(chan string, 1)
MakeChan == [buf |-> <<>>, closed |-> FALSE]

\* make(map[string][]chan string)
NoTopics == [t \in {} |-> <<>>]

\* _, ok := p.subscribers[topic], in each method
PublishFindsAny(subs, t) == TRUE
PublishFinds(subs, t) == t \in DOMAIN subs

SubscribeFindsAny(subs, t) == TRUE
SubscribeFinds(subs, t) == t \in DOMAIN subs

CloseTopicFinds(subs, t) == t \in DOMAIN subs

CloseSubscriberFindsAny(subs, t) == TRUE
CloseSubscriberFinds(subs, t) == t \in DOMAIN subs

\* p.subscribers[topic]: the nil slice when the topic is absent
LookupOther(subs, t) ==
  IF \E u \in DOMAIN subs : u # t
    THEN subs[CHOOSE u \in DOMAIN subs : u # t]
    ELSE IF t \in DOMAIN subs THEN subs[t] ELSE <<>>
Lookup(subs, t) == IF t \in DOMAIN subs THEN subs[t] ELSE <<>>

\* p.subscribers[topic] = list
StoreKeepsOld(subs, t, list) ==
  IF t \in DOMAIN subs THEN subs ELSE [u \in {t} \cup DOMAIN subs |->
                                        IF u = t THEN list ELSE subs[u]]
StoreDropsOthers(subs, t, list) == [u \in {t} |-> list]
Store(subs, t, list) ==
  [u \in DOMAIN subs \cup {t} |-> IF u = t THEN list ELSE subs[u]]

\* delete(p.subscribers, topic)
DeleteKeeps(subs, t) == subs
Delete(subs, t) == [u \in DOMAIN subs \ {t} |-> subs[u]]

\* for _, ch := range subscriber: the mailboxes Publish visits
RangeFirstOnly(list) == IF list = <<>> THEN list ELSE <<Head(list)>>
Range(list) == list

\* ch <- message goes through only when the buffer has room
HasRoomAlways(mb) == TRUE
HasRoom(mb) == Len(mb.buf) < MailboxCap

\* ch <- message on a mailbox with room
ChanSend(mb, m) == [mb EXCEPT !.buf = Append(@, m)]

\* close(ch)
ChanCloseDrops(mb) == [buf |-> <<>>, closed |-> TRUE]
ChanClose(mb) == [mb EXCEPT !.closed = TRUE]

\* first position of c in list, 0 when it is not there
IndexOf(list, c) ==
  IF \E i \in 1..Len(list) : list[i] = c
    THEN CHOOSE i \in 1..Len(list) :
           list[i] = c /\ \A j \in 1..(i - 1) : list[j] # c
    ELSE 0

\* append(list[:i], list[i+1:]...) with i counted from 1
RemoveLast(list, i) == SubSeq(list, 1, Len(list) - 1)
RemoveNone(list, i) == list
RemoveAt(list, i) ==
  [j \in 1..(Len(list) - 1) |-> IF j < i THEN list[j] ELSE list[j + 1]]

\* NewPublisher()
BrokerFresh ==
  /\ subscribers = NoTopics
  /\ mailbox = <<>>
  /\ readers = {}
  /\ writer = 0
  /\ bpc = [p \in Procs |-> "idle"]
  /\ bcall = [p \in Procs |-> NoCall]
  /\ subscriber = [p \in Procs |-> <<>>]
  /\ delivered = [p \in Procs |-> <<>>]
  /\ last = NoneReturned
  /\ got = <<>>
  /\ calls = 0
  /\ closedT = {}
  /\ bpanic = FALSE

(* ------------------------------ NewChannel ---------------------------- *)
NewChannel(c) == [store |-> <<>>, capacity |-> c, close |-> FALSE]

ChannelInit ==
  /\ cap0 \in 0..MaxCap
  /\ store = NewChannel(cap0).store
  /\ capacity = NewChannel(cap0).capacity
  /\ close = NewChannel(cap0).close
  /\ notify = {}
  /\ pc = [p \in Procs |-> "idle"]
  /\ msg = [p \in Procs |-> Zero]
  /\ ret = [p \in Procs |-> NoRet]
  /\ nops = 0
  /\ pushed = <<>>
  /\ popped = <<>>
  /\ closedAt = -1
  /\ seen = [p \in Procs |-> "none"]

\* NewChannel(cap0) for some capacity, next to an untouched NewMutex()
Init ==
  /\ ChannelInit
  /\ MutexFresh
  /\ BrokerFresh

(* -------------------------------- Send -------------------------------- *)
\* a wait loop that reads ch.close again once cond.Wait() has returned
SendLoopSeesClosed(p, v) ==
  IF close /\ pc[p] = "Send_wait"
  THEN /\ pc' = [pc EXCEPT ![p] = "idle"]
       /\ msg' = [msg EXCEPT ![p] = Zero]
       /\ ret' = [ret EXCEPT ![p] = SendClosed]
       /\ UNCHANGED <<store, notify, pushed, seen>>
  ELSE IF SendWaits(Len(store), capacity)
  THEN /\ pc' = [pc EXCEPT ![p] = "Send_wait"]
       /\ msg' = [msg EXCEPT ![p] = v]
       /\ notify' = notify \cup {p}
       /\ ret' = [ret EXCEPT ![p] = NoRet]
       /\ seen' = [seen EXCEPT ![p] = IF pc[p] = "idle" THEN "waited" ELSE @]
       /\ UNCHANGED <<store, pushed>>
  ELSE /\ store' = PushBack(store, v)
       /\ notify' = Broadcast(notify)
       /\ pc' = [pc EXCEPT ![p] = "idle"]
       /\ msg' = [msg EXCEPT ![p] = Zero]
       /\ ret' = [ret EXCEPT ![p] = SendOk]
       /\ pushed' = Append(pushed, v)
       /\ seen' = [seen EXCEPT ![p] = IF pc[p] = "idle" THEN "direct" ELSE @]

\* for ch.store.Len() == ch.capacity { cond.Wait() }
\* ch.store.PushBack(message); cond.Broadcast(); return nil
SendLoop(p, v) ==
  IF SendWaits(Len(store), capacity)
  THEN /\ pc' = [pc EXCEPT ![p] = "Send_wait"]
       /\ msg' = [msg EXCEPT ![p] = v]
       /\ notify' = notify \cup {p}
       /\ ret' = [ret EXCEPT ![p] = NoRet]
       /\ seen' = [seen EXCEPT ![p] = IF pc[p] = "idle" THEN "waited" ELSE @]
       /\ UNCHANGED <<store, pushed>>
  ELSE /\ store' = PushBack(store, v)
       /\ notify' = Broadcast(notify)
       /\ pc' = [pc EXCEPT ![p] = "idle"]
       /\ msg' = [msg EXCEPT ![p] = Zero]
       /\ ret' = [ret EXCEPT ![p] = SendOk]
       /\ pushed' = Append(pushed, v)
       /\ seen' = [seen EXCEPT ![p] = IF pc[p] = "idle" THEN "direct" ELSE @]

\* a goroutine calls ch.Send(v)
Send(p, v) ==
  /\ pc[p] = "idle"
  /\ nops < MaxOps
  /\ nops' = nops + 1
  /\ IF SendSeesClosed(close)
     THEN /\ ret' = [ret EXCEPT ![p] = SendClosed]
          /\ seen' = [seen EXCEPT ![p] = "direct"]
          /\ UNCHANGED <<store, notify, pc, msg, pushed>>
     ELSE SendLoop(p, v)
  /\ UNCHANGED <<capacity, close, cap0, popped, closedAt>>
  /\ UNCHANGED <<mvars, bvars>>

\* a Send parked in cond.Wait() was woken and has the mutex again
SendWake(p) ==
  /\ pc[p] = "Send_wait"
  /\ p \notin notify
  /\ SendLoop(p, msg[p])
  /\ UNCHANGED <<capacity, close, cap0, nops, popped, closedAt>>
  /\ UNCHANGED <<mvars, bvars>>

(* ------------------------------- Receive ------------------------------ *)
\* for ch.store.Len() == 0 { cond.Wait() }
\* ch.capacity--; item := Front(); Remove(item); Broadcast(); return item, true
\* cap and ntf are ch.capacity and the parked set as the loop finds them
RecvLoop(p, cap, ntf) ==
  IF RecvWaits(Len(store))
  THEN /\ pc' = [pc EXCEPT ![p] = "Recv_wait"]
       /\ capacity' = cap
       /\ notify' = ntf \cup {p}
       /\ ret' = [ret EXCEPT ![p] = NoRet]
       /\ seen' = [seen EXCEPT ![p] = IF pc[p] = "idle" THEN "waited" ELSE @]
       /\ UNCHANGED <<store, popped>>
  ELSE /\ capacity' = Narrow(cap)
       /\ store' = RemoveFront(store)
       /\ notify' = Broadcast(ntf)
       /\ pc' = [pc EXCEPT ![p] = "idle"]
       /\ ret' = [ret EXCEPT ![p] = RecvOk(Front(store))]
       /\ popped' = Append(popped, Front(store))
       /\ seen' = [seen EXCEPT ![p] = IF pc[p] = "idle" THEN "direct" ELSE @]

\* a goroutine calls ch.Receive()
Receive(p) ==
  /\ pc[p] = "idle"
  /\ nops < MaxOps
  /\ nops' = nops + 1
  /\ IF RecvSeesClosed(close)
     THEN /\ ret' = [ret EXCEPT ![p] = RecvClosed]
          /\ seen' = [seen EXCEPT ![p] = "direct"]
          /\ UNCHANGED <<store, capacity, notify, pc, popped>>
     ELSE RecvLoop(p, Widen(capacity), Broadcast(notify))
  /\ UNCHANGED <<close, msg, cap0, pushed, closedAt>>
  /\ UNCHANGED <<mvars, bvars>>

\* a Receive parked in cond.Wait() was woken and has the mutex again
RecvWake(p) ==
  /\ pc[p] = "Recv_wait"
  /\ p \notin notify
  /\ RecvLoop(p, capacity, notify)
  /\ UNCHANGED <<close, msg, cap0, nops, pushed, closedAt>>
  /\ UNCHANGED <<mvars, bvars>>

(* -------------------------------- Close ------------------------------- *)
\* a goroutine calls ch.Close()
Close(p) ==
  /\ pc[p] = "idle"
  /\ nops < MaxOps
  /\ nops' = nops + 1
  /\ IF CloseSeesClosed(close)
     THEN /\ ret' = [ret EXCEPT ![p] = CloseClosed]
          /\ seen' = [seen EXCEPT ![p] = "direct"]
          /\ UNCHANGED <<close, notify, closedAt>>
     ELSE /\ close' = TRUE
          /\ notify' = Broadcast(notify)
          /\ closedAt' = Len(pushed)
          /\ ret' = [ret EXCEPT ![p] = CloseOk]
          /\ seen' = [q \in Procs |->
                        IF q = p THEN "direct"
                        ELSE IF pc[q] # "idle" THEN "closed" ELSE seen[q]]
  /\ UNCHANGED <<store, capacity, pc, msg, cap0, pushed, popped>>
  /\ UNCHANGED <<mvars, bvars>>

(* --------------------------- specifications --------------------------- *)
Next ==
  \/ \E p \in Procs, v \in Values : Send(p, v)
  \/ \E p \in Procs : SendWake(p)
  \/ \E p \in Procs : Receive(p)
  \/ \E p \in Procs : RecvWake(p)
  \/ \E p \in Procs : Close(p)

Spec == Init /\ [][Next]_vars

\* A goroutine woken by Broadcast is runnable and sync.Mutex hands the lock
\* to every contender in the end, so a woken waiter does run its wake step.
\* Nothing obliges any goroutine to issue a new call.
FairSpec ==
  /\ Spec
  /\ \A p \in Procs : WF_vars(SendWake(p)) /\ WF_vars(RecvWake(p))

TypeOK ==
  /\ store \in Seq(Values)
  /\ capacity \in Nat
  /\ close \in BOOLEAN
  /\ notify \subseteq Procs
  /\ pc \in [Procs -> {"idle", "Send_wait", "Recv_wait"}]
  /\ nops \in 0..MaxOps


(* ======================= Mutex[T]: the operations ===================== *)
\* a caller calls m.Get(): responeChan := make(chan T); m.read <- responeChan
Get(p) ==
  /\ mpc[p] = "idle"
  /\ mops < MaxOps
  /\ mops' = mops + 1
  /\ mpc' = [mpc EXCEPT ![p] = "Get_send"]
  /\ mret' = [mret EXCEPT ![p] = NoMRet]
  /\ UNCHANGED <<data, loop, responeChan, value, marg, made, served,
                 written, lastW, stopBy>>
  /\ UNCHANGED <<vars, bvars>>

\* a caller calls m.Send(v): the write request is handed over on m.write
MutexSend(p, v) ==
  /\ mpc[p] = "idle"
  /\ mops < MaxOps
  /\ mops' = mops + 1
  /\ mpc' = [mpc EXCEPT ![p] = "Send_send"]
  /\ marg' = [marg EXCEPT ![p] = v]
  /\ mret' = [mret EXCEPT ![p] = NoMRet]
  /\ UNCHANGED <<data, loop, responeChan, value, made, served,
                 written, lastW, stopBy>>
  /\ UNCHANGED <<vars, bvars>>

\* a caller calls m.Close(): the monitor is told to stop on m.stop
MutexClose(p) ==
  /\ mpc[p] = "idle"
  /\ mops < MaxOps
  /\ mops' = mops + 1
  /\ mpc' = [mpc EXCEPT ![p] = "Close_send"]
  /\ mret' = [mret EXCEPT ![p] = NoMRet]
  /\ UNCHANGED <<data, loop, responeChan, value, marg, made, served,
                 written, lastW, stopBy>>
  /\ UNCHANGED <<vars, bvars>>

\* case responeChan := <-m.read, meeting p's m.read <- responeChan
SelectRead(p) ==
  /\ loop = "select"
  /\ mpc[p] = "Get_send"
  /\ loop' = "reply"
  /\ responeChan' = p
  /\ mpc' = [mpc EXCEPT ![p] = "Get_recv"]
  /\ served' = served + 1
  /\ UNCHANGED <<data, value, marg, mret, made, mops, written, lastW, stopBy>>
  /\ UNCHANGED <<vars, bvars>>

\* responeChan <- m.data, meeting the caller's return <-responeChan
Reply ==
  /\ loop = "reply"
  /\ mpc[responeChan] = "Get_recv"
  /\ mret' = [mret EXCEPT ![responeChan] = MGetRet(ReplyValue(data))]
  /\ mpc' = [mpc EXCEPT ![responeChan] = "idle"]
  /\ responeChan' = 0
  /\ loop' = LoopAgain
  /\ UNCHANGED <<data, value, marg, made, mops, served, written, lastW,
                 stopBy>>
  /\ UNCHANGED <<vars, bvars>>

\* case value := <-m.write, meeting p's send on m.write; p's Send returns
SelectWrite(p) ==
  /\ loop = "select"
  /\ mpc[p] = "Send_send"
  /\ loop' = "assign"
  /\ value' = marg[p]
  /\ mpc' = [mpc EXCEPT ![p] = "idle"]
  /\ marg' = [marg EXCEPT ![p] = Zero]
  /\ mret' = [mret EXCEPT ![p] = MSendRet]
  /\ served' = served + 1
  /\ written' = written \cup {marg[p]}
  /\ lastW' = [who |-> p, val |-> marg[p]]
  /\ UNCHANGED <<data, responeChan, made, mops, stopBy>>
  /\ UNCHANGED <<vars, bvars>>

\* m.data = value
AssignData ==
  /\ loop = "assign"
  /\ data' = Assign(data, value)
  /\ value' = Zero
  /\ loop' = LoopAgain
  /\ UNCHANGED <<responeChan, mpc, marg, mret, made, mops, served, written,
                 lastW, stopBy>>
  /\ UNCHANGED <<vars, bvars>>

\* case <-m.stop: return, meeting p's signal on m.stop; p's Close returns
SelectStop(p) ==
  /\ loop = "select"
  /\ mpc[p] = "Close_send"
  /\ loop' = OnStop
  /\ mpc' = [mpc EXCEPT ![p] = "idle"]
  /\ mret' = [mret EXCEPT ![p] = MCloseRet]
  /\ stopBy' = p
  /\ UNCHANGED <<data, responeChan, value, marg, made, mops, served,
                 written, lastW>>
  /\ UNCHANGED <<vars, bvars>>

\* NewMutex() or NewMutexWithValue(v), next to an untouched NewChannel(0)
MutexInit ==
  /\ \/ made = [ctor |-> "NewMutex", arg |-> Zero] /\ data = NewMutex
     \/ \E v \in InitValues :
          /\ made = [ctor |-> "NewMutexWithValue", arg |-> v]
          /\ data = NewMutexWithValue(v)
  /\ MutexStarted
  /\ ChannelInit
  /\ cap0 = 0
  /\ BrokerFresh

MutexNext ==
  \/ \E p \in Procs : Get(p)
  \/ \E p \in Procs, v \in MValues : MutexSend(p, v)
  \/ \E p \in Procs : MutexClose(p)
  \/ \E p \in Procs : SelectRead(p)
  \/ Reply
  \/ \E p \in Procs : SelectWrite(p)
  \/ AssignData
  \/ \E p \in Procs : SelectStop(p)

MutexSpec == MutexInit /\ [][MutexNext]_mvars

\* The monitor goroutine keeps running, so it takes the step after a case.
\* one step of the monitor goroutine: a select case taken, or the body of
\* the case it is in
LoopStep ==
  \/ Reply
  \/ AssignData
  \/ \E p \in Procs : SelectRead(p) \/ SelectWrite(p) \/ SelectStop(p)

\* the monitor goroutine is scheduled whenever it can take a step.  The
\* calls are bounded by MaxOps, so this alone takes every blocked caller in
\* the end; select's random choice among its ready cases is not needed.
MutexFairSpec == MutexSpec /\ WF_mvars(LoopStep)

(* ============================== Publisher ============================= *)
\* sync.RWMutex.  Lock() first takes the writers' mutex and announces the
\* writer (writer # 0), which blocks every later RLock(), then waits until
\* the readers that hold the lock have left.  Unlock() lets in the readers
\* that were blocked and only then frees the writers' mutex.  A method that
\* takes the exclusive lock runs from Lock() to its deferred Unlock() with
\* no other goroutine inside the Publisher, so that stretch is one step.

\* a goroutine may make a call
MayCall(p) ==
  /\ ~bpanic
  /\ bpc[p] = "idle"
  /\ calls < MaxCalls

\* Unlock(): the goroutine returns and the blocked readers get the lock
Unlock(p) ==
  /\ writer' = 0
  /\ readers' = {q \in Procs : bpc[q] = "RLock"}
  /\ bpc' = [q \in Procs |->
               IF q = p THEN "idle"
               ELSE IF bpc[q] = "RLock" THEN "RLock_ok" ELSE bpc[q]]
  /\ bcall' = [bcall EXCEPT ![p] = NoCall]

(* ----------------------------- CreateTopic ---------------------------- *)
CreateTopicBody(a, t) ==
  /\ subscribers' = Store(subscribers, t, <<>>)
  /\ last' = Returned(a, Nil, <<>>)
  /\ closedT' = closedT \ {t}
  /\ UNCHANGED <<mailbox, got, bpanic>>

(* ------------------------------ Subscribe ----------------------------- *)
\* the channel made before the lookup is dropped when the topic is absent
SubscribeBody(a, t) ==
  /\ IF ~SubscribeFinds(subscribers, t)
       THEN /\ last' = Returned(a, TopicNotFound, <<>>)
            /\ UNCHANGED <<subscribers, mailbox, got>>
       ELSE LET channel == Len(mailbox) + 1 IN
            /\ mailbox' = Append(mailbox, MakeChan)
            /\ got' = Append(got, <<>>)
            /\ subscribers' =
                 Store(subscribers, t, Append(Lookup(subscribers, t), channel))
            /\ last' = Returned(a, Subscribed(channel), <<>>)
  /\ UNCHANGED <<closedT, bpanic>>

(* ----------------------------- CloseTopic ----------------------------- *)
\* close(ch) of a closed channel panics
CloseTopicBody(a, t) ==
  IF ~CloseTopicFinds(subscribers, t)
    THEN /\ last' = Returned(a, TopicNotFound, <<>>)
         /\ UNCHANGED <<subscribers, mailbox, got, closedT, bpanic>>
    ELSE LET list == Lookup(subscribers, t)
             chs == {list[i] : i \in 1..Len(list)}
         IN
         /\ mailbox' = [c \in 1..Len(mailbox) |->
                          IF c \in chs THEN ChanClose(mailbox[c])
                          ELSE mailbox[c]]
         /\ bpanic' = \/ \E c \in chs : mailbox[c].closed
                      \/ Cardinality(chs) # Len(list)
         /\ subscribers' = Delete(subscribers, t)
         /\ closedT' = closedT \cup {t}
         /\ last' = Returned(a, Nil, <<>>)
         /\ UNCHANGED got

(* --------------------------- CloseSubscriber -------------------------- *)
CloseSubscriberBody(a, t, c) ==
  /\ IF ~CloseSubscriberFinds(subscribers, t)
       THEN /\ last' = Returned(a, TopicNotFound, <<>>)
            /\ UNCHANGED <<subscribers, mailbox, bpanic>>
       ELSE LET list == Lookup(subscribers, t)
                i == IndexOf(list, c)
            IN
            IF i = 0
              THEN /\ last' = Returned(a, SubscriberNotFound, <<>>)
                   /\ UNCHANGED <<subscribers, mailbox, bpanic>>
              ELSE /\ mailbox' = [mailbox EXCEPT ![c] = ChanClose(@)]
                   /\ bpanic' = mailbox[c].closed
                   /\ subscribers' = Store(subscribers, t, RemoveAt(list, i))
                   /\ last' = Returned(a, Nil, <<>>)
  /\ UNCHANGED <<got, closedT>>

\* the method between Lock() and Unlock()
Body(p, a) ==
  CASE a.op = "CreateTopic" -> CreateTopicBody(a, a.topic)
    [] a.op = "Subscribe" -> SubscribeBody(a, a.topic)
    [] a.op = "CloseTopic" -> CloseTopicBody(a, a.topic)
    [] a.op = "CloseSubscriber" -> CloseSubscriberBody(a, a.topic, a.ch)

\* a Lock() that does not wait for the readers to leave
LockLoopBarges(p, a) ==
  /\ Body(p, a)
  /\ Unlock(p)

\* Lock() once the writers' mutex is taken: run, or wait for the readers
LockLoop(p, a) ==
  IF readers = {}
    THEN /\ Body(p, a)
         /\ Unlock(p)
    ELSE /\ writer' = p
         /\ bpc' = [bpc EXCEPT ![p] = "Lock_wait"]
         /\ bcall' = [bcall EXCEPT ![p] = a]
         /\ UNCHANGED <<subscribers, mailbox, readers, last, got, closedT,
                        bpanic>>

\* a call of a method that takes the exclusive lock
Exclusive(p, a) ==
  /\ MayCall(p)
  /\ calls' = calls + 1
  /\ IF writer = 0
       THEN LockLoop(p, a)
       ELSE /\ bpc' = [bpc EXCEPT ![p] = "Lock_mutex"]
            /\ bcall' = [bcall EXCEPT ![p] = a]
            /\ UNCHANGED <<subscribers, mailbox, readers, writer, last, got,
                           closedT, bpanic>>
  /\ UNCHANGED <<subscriber, delivered>>
  /\ UNCHANGED <<vars, mvars>>

CreateTopic(p, t) == Exclusive(p, CreateTopicCall(t))

Subscribe(p, t) == Exclusive(p, SubscribeCall(t))

CloseTopic(p, t) == Exclusive(p, CloseTopicCall(t))

CloseSubscriber(p, t, c) == Exclusive(p, CloseSubscriberCall(t, c))

\* a goroutine blocked on the writers' mutex takes it
LockTake(p) ==
  /\ ~bpanic
  /\ bpc[p] = "Lock_mutex"
  /\ writer = 0
  /\ LockLoop(p, bcall[p])
  /\ UNCHANGED <<subscriber, delivered, calls>>
  /\ UNCHANGED <<vars, mvars>>

\* the last reader has left: the announced writer runs
LockGranted(p) ==
  /\ ~bpanic
  /\ bpc[p] = "Lock_wait"
  /\ writer = p
  /\ readers = {}
  /\ Body(p, bcall[p])
  /\ Unlock(p)
  /\ UNCHANGED <<subscriber, delivered, calls>>
  /\ UNCHANGED <<vars, mvars>>

(* ------------------------------- Publish ------------------------------ *)
\* RUnlock() and return
PubReturn(p, a, r, d) ==
  /\ readers' = readers \ {p}
  /\ bpc' = [bpc EXCEPT ![p] = "idle"]
  /\ bcall' = [bcall EXCEPT ![p] = NoCall]
  /\ subscriber' = [subscriber EXCEPT ![p] = <<>>]
  /\ delivered' = [delivered EXCEPT ![p] = <<>>]
  /\ last' = Returned(a, r, d)

\* from RLock() granted to the start of the loop
PubLookup(p, a) ==
  IF ~PublishFinds(subscribers, a.topic)
    THEN PubReturn(p, a, TopicNotFound, <<>>)
    ELSE LET list == Range(Lookup(subscribers, a.topic)) IN
         IF list = <<>>
           THEN PubReturn(p, a, Nil, <<>>)
           ELSE /\ readers' = readers \cup {p}
                /\ bpc' = [bpc EXCEPT ![p] = "send"]
                /\ bcall' = [bcall EXCEPT ![p] = a]
                /\ subscriber' = [subscriber EXCEPT ![p] = list]
                /\ UNCHANGED <<delivered, last>>

Publish(p, t, m) ==
  /\ MayCall(p)
  /\ calls' = calls + 1
  /\ IF writer = 0
       THEN PubLookup(p, PublishCall(t, m))
       ELSE /\ bpc' = [bpc EXCEPT ![p] = "RLock"]
            /\ bcall' = [bcall EXCEPT ![p] = PublishCall(t, m)]
            /\ UNCHANGED <<readers, subscriber, delivered, last>>
  /\ UNCHANGED <<subscribers, mailbox, writer, got, closedT, bpanic>>
  /\ UNCHANGED <<vars, mvars>>

\* a reader let in by Unlock() goes on
PubStart(p) ==
  /\ ~bpanic
  /\ bpc[p] = "RLock_ok"
  /\ PubLookup(p, bcall[p])
  /\ UNCHANGED <<subscribers, mailbox, writer, got, calls, closedT, bpanic>>
  /\ UNCHANGED <<vars, mvars>>

\* ch <- message for the next mailbox of the loop: blocks while the mailbox
\* is full, panics when it is closed; after the last one RUnlock() and return
PubSend(p) ==
  /\ ~bpanic
  /\ bpc[p] = "send"
  /\ LET ch == Head(subscriber[p]) IN
     IF mailbox[ch].closed
       THEN /\ bpanic' = TRUE
            /\ UNCHANGED <<mailbox, readers, bpc, bcall, subscriber,
                           delivered, last>>
       ELSE /\ HasRoom(mailbox[ch])
            /\ mailbox' = [mailbox EXCEPT ![ch] = ChanSend(@, bcall[p].msg)]
            /\ IF Tail(subscriber[p]) = <<>>
                 THEN PubReturn(p, bcall[p], Nil, Append(delivered[p], ch))
                 ELSE /\ delivered' = [delivered EXCEPT ![p] = Append(@, ch)]
                      /\ subscriber' = [subscriber EXCEPT ![p] = Tail(@)]
                      /\ UNCHANGED <<readers, bpc, bcall, last>>
            /\ UNCHANGED bpanic
  /\ UNCHANGED <<subscribers, writer, got, calls, closedT>>
  /\ UNCHANGED <<vars, mvars>>

(* ------------------------------ subscriber ---------------------------- *)
\* one round of a subscriber's "for msg := range ch": the buffered message,
\* or the end of the loop when the mailbox is closed and empty
Consume(ch) ==
  /\ ~bpanic
  /\ IF mailbox[ch].buf # <<>>
       THEN /\ got' = [got EXCEPT ![ch] = Append(@, Head(mailbox[ch].buf))]
            /\ mailbox' = [mailbox EXCEPT ![ch].buf = Tail(@)]
       ELSE /\ mailbox[ch].closed
            /\ ~Ended(got[ch])
            /\ got' = [got EXCEPT ![ch] = Append(@, EndOfStream)]
            /\ UNCHANGED mailbox
  /\ UNCHANGED <<subscribers, readers, writer, bpc, bcall, subscriber,
                 delivered, last, calls, closedT, bpanic>>
  /\ UNCHANGED <<vars, mvars>>

\* NewPublisher(), next to an untouched NewChannel(0) and NewMutex()
BrokerInit ==
  /\ BrokerFresh
  /\ ChannelInit
  /\ cap0 = 0
  /\ MutexFresh

BrokerNext ==
  \/ \E p \in Procs, t \in Topics : CreateTopic(p, t)
  \/ \E p \in Procs, t \in Topics : Subscribe(p, t)
  \/ \E p \in Procs, t \in Topics, m \in Msgs : Publish(p, t, m)
  \/ \E p \in Procs, t \in Topics : CloseTopic(p, t)
  \/ \E p \in Procs, t \in Topics, c \in 1..Len(mailbox) :
       CloseSubscriber(p, t, c)
  \/ \E p \in Procs : LockTake(p)
  \/ \E p \in Procs : LockGranted(p)
  \/ \E p \in Procs : PubStart(p)
  \/ \E p \in Procs : PubSend(p)
  \/ \E c \in 1..Len(mailbox) : Consume(c)

BrokerSpec == BrokerInit /\ [][BrokerNext]_bvars

\* a step of a call that is under way, or of a subscriber's receive loop
BrokerStep ==
  \/ \E p \in Procs : LockTake(p) \/ LockGranted(p) \/ PubStart(p) \/ PubSend(p)
  \/ \E c \in 1..Len(mailbox) : Consume(c)

\* A goroutine that can go on with its call is scheduled, and a subscriber
\* keeps receiving from its mailbox.  The calls are bounded by MaxCalls, so
\* this alone lets every goroutine that can ever go on do so.  Nothing
\* obliges any goroutine to make a new call.
BrokerFairSpec == BrokerSpec /\ WF_bvars(BrokerStep)

(* ------------------------------ vocabulary ---------------------------- *)
\* Receive calls between their capacity++ and their capacity--
InWindow == {p \in Procs : pc[p] = "Recv_wait"}
NoWindow == InWindow = {}
Full == Len(store) = capacity
IsPrefix(s, t) == Len(s) <= Len(t) /\ SubSeq(t, 1, Len(s)) = s
Dequeued == Len(popped') = Len(popped) + 1

(* ================================ C1 ================================== *)
\* C1: the values Receive returns, in dequeue order, followed by the values
\* still buffered are exactly the values Send appended, in append order
\* (FIFO round trip), and a Receive that returns a value returns ok = true
\* with one of the dequeued values.
C1_FifoRoundTrip ==
  /\ pushed = popped \o store
  /\ \A p \in Procs :
       (pc[p] = "idle" /\ ret[p].op = "Receive" /\ ret[p].ok)
         => \E i \in 1..Len(popped) : popped[i] = ret[p].val

\* two different values went through an open queue and came out in order
C1_Witness ==
  /\ ~close
  /\ pushed = <<7, 8>>
  /\ popped = <<7, 8>>
  /\ store = <<>>
  /\ \E p \in Procs : ret[p] = RecvOk(8)

(* ================================ C2 ================================== *)
\* the only two calls issued so far are t1's Receive and t2's Send(7),
\* on a queue built with capacity 0
ScenarioA(t1, t2) ==
  /\ cap0 = 0
  /\ nops = 2
  /\ t1 # t2
  /\ pc[t1] = "Recv_wait" \/ (pc[t1] = "idle" /\ ret[t1].op = "Receive")
  /\ \/ pc[t2] = "Send_wait" /\ msg[t2] = 7
     \/ pc[t2] = "idle" /\ ret[t2].op = "Send" /\ pushed \in {<<>>, <<7>>}

DoneA(t1, t2) ==
  /\ pc[t1] = "idle" /\ ret[t1] = RecvOk(7)
  /\ pc[t2] = "idle" /\ ret[t2] = SendOk
  /\ Len(store) = 0
  /\ capacity = 0

\* C2: rendezvous (Scenario A).  On a capacity-0 queue, with a Receive by t1
\* and a Send(7) by t2 as the only calls, both calls terminate: Send returns
\* success, Receive returns (7, true), and then the queue is empty and its
\* capacity is 0 again.  A call that has returned has returned exactly that.
C2_Rendezvous ==
  /\ \A t1, t2 \in Procs :
       ScenarioA(t1, t2) ~> (DoneA(t1, t2) \/ nops > 2)
  /\ [](\A t1, t2 \in Procs :
          ScenarioA(t1, t2) =>
            /\ pc[t1] = "idle" => ret[t1] = RecvOk(7)
            /\ pc[t2] = "idle" => ret[t2] = SendOk
            /\ (pc[t1] = "idle" /\ pc[t2] = "idle") => DoneA(t1, t2))

\* the Receive was issued first and parked, the Send found room at once
C2_Witness ==
  \E t1, t2 \in Procs :
    /\ ScenarioA(t1, t2)
    /\ DoneA(t1, t2)
    /\ seen[t1] = "waited"
    /\ seen[t2] = "direct"

(* ================================ C3 ================================== *)
\* C3 as stated: the queue never holds more than the constructed capacity
\* when no Receive is inside its widen window, and it holds at most the
\* constructed capacity right after any Receive's narrow-and-dequeue step.
C3_Original ==
  [][ /\ NoWindow' => Len(store') <= cap0
      /\ Dequeued => Len(store') <= cap0 ]_vars

\* C3 amended: in every state the queue holds at most the constructed
\* capacity plus one item per Receive that is inside its widen window; so
\* it holds at most the constructed capacity whenever no window is open.
C3_CapacityBound ==
  /\ 0 <= Len(store)
  /\ Len(store) <= cap0 + Cardinality(InWindow)

\* a Receive that had widened has narrowed and dequeued, no window is open,
\* and the queue is full to its constructed capacity
C3_Witness ==
  /\ NoWindow
  /\ cap0 > 0
  /\ Len(store) = cap0
  /\ \E p \in Procs :
       pc[p] = "idle" /\ seen[p] = "waited" /\ ret[p].op = "Receive" /\ ret[p].ok

(* ================================ C4 ================================== *)
\* C4: a Send on a queue that is already closed returns the closed error in
\* the calling step itself (it does not park, full queue or not) and leaves
\* items, capacity and the closed flag as they were.
C4_SendOnClosed ==
  [][ \A p \in Procs, v \in Values :
        (close /\ Send(p, v)) =>
          /\ pc'[p] = "idle"
          /\ ret'[p] = SendClosed
          /\ p \notin notify'
          /\ chan' = chan ]_vars

\* a Send was refused on a closed queue that was full
C4_Witness ==
  /\ close
  /\ Full
  /\ store # <<>>
  /\ \E p \in Procs : pc[p] = "idle" /\ ret[p] = SendClosed

C6_ItemsSurviveClose ==
  \A p \in Procs :
    (pc[p] = "idle" /\ ret[p] = RecvClosed) => Len(popped) >= closedAt

(* ================================ C7 ================================== *)
\* C7: a Send that was parked on a full queue when Close succeeded is woken
\* by the close, sees the closure when it re-checks and returns the closed
\* error: it neither parks again nor returns success.
C7_BlockedSendFailsOnClose ==
  \A p \in Procs :
    seen[p] = "closed" =>
      /\ ~(pc[p] = "Send_wait" /\ p \in notify)
      /\ ~(pc[p] = "idle" /\ ret[p] = SendOk)

(* ================================ C8 ================================== *)
\* C8: a Receive that passed the closed check before Close, and is waiting
\* when the queue is closed, completes with a dequeued value and ok = true.
C8_InFlightReceiveCompletes ==
  \A p \in Procs :
    (pc[p] = "Recv_wait" /\ close)
      ~> (pc[p] = "idle" /\ ret[p].op = "Receive" /\ ret[p].ok)

(* ================================ C9 ================================== *)
\* C9: Close is one-time.  On an open queue it sets closed and returns
\* success; on a closed queue it returns the already-closed error and
\* changes nothing; and no step of any operation resets closed to false.
C9_CloseOnce ==
  [][ /\ close => close'
      /\ \A p \in Procs :
           Close(p) =>
             /\ pc'[p] = "idle"
             /\ store' = store /\ capacity' = capacity
             /\ IF close THEN ret'[p] = CloseClosed /\ close' = close
                         ELSE ret'[p] = CloseOk /\ close' = TRUE ]_vars

\* one Close succeeded and a later one was refused
C9_Witness ==
  /\ close
  /\ \E p, q \in Procs : ret[p] = CloseOk /\ ret[q] = CloseClosed

(* ================================ C10 ================================= *)
\* p is a Send parked on an open queue that has room again, with no
\* Receive inside its window: a Receive has dequeued since p parked
RoomFor(p) ==
  /\ pc[p] = "Send_wait"
  /\ ~close
  /\ NoWindow
  /\ Len(store) < capacity

\* a Send called on a full open queue parks and appends nothing, and while
\* a Send is parked on a full queue only a Receive call makes room
BackPressure ==
  [][ \A p \in Procs :
        /\ \A v \in Values :
             (~close /\ Full /\ Send(p, v)) =>
               pc'[p] = "Send_wait" /\ store' = store /\ pushed' = pushed
        /\ (pc[p] = "Send_wait" /\ Full) =>
             /\ pc'[p] = "Send_wait"
             /\ Full' \/ \E r \in Procs : Receive(r) ]_vars

\* C10 as stated: once a Receive has dequeued an item, the parked Send
\* appends its value and returns success.
C10_Original ==
  \A p \in Procs : RoomFor(p) ~> (pc[p] = "idle" /\ ret[p] = SendOk)

\* C10 amended: a Send on a full open queue parks without appending until a
\* Receive has started; once a Receive has dequeued an item the parked Send
\* appends its value and returns success unless another Send fills the
\* freed slot first (no wake-up is lost); values come out in send order.
C10_BackPressure ==
  /\ BackPressure
  /\ \A p \in Procs :
       RoomFor(p) ~> ((pc[p] = "idle" /\ ret[p] = SendOk) \/ Full)
  /\ [](\A p \in Procs : (pc[p] = "Send_wait" /\ p \in notify) => Full)
  /\ [](IsPrefix(popped, pushed))

\* a Send that had parked on a full buffered queue got in after a Receive
\* and its value was received after the one that was ahead of it
C10_Witness ==
  /\ cap0 > 0
  /\ ~close
  /\ popped = <<7, 8>>
  /\ \E p \in Procs :
       pc[p] = "idle" /\ ret[p] = SendOk /\ seen[p] = "waited"

(* ================================ C11 ================================= *)
AllIdle == \A p \in Procs : pc[p] = "idle"
Count(v, s) == Cardinality({i \in 1..Len(s) : s[i] = v})

\* Send and Receive calls issued so far on a queue that was never closed:
\* those that appended or dequeued and those still parked
SendCalls == Len(pushed) + Cardinality({p \in Procs : pc[p] = "Send_wait"})
RecvCalls == Len(popped) + Cardinality(InWindow)

\* an open buffered queue on which as many Sends as Receives were issued
Balanced ==
  /\ ~close
  /\ cap0 > 0
  /\ SendCalls > 0
  /\ SendCalls = RecvCalls

\* C11: no loss and no duplication under contention.  On an open buffered
\* queue with as many Send calls as Receive calls issued, every call
\* returns (unless further calls are issued), nothing is left buffered, and
\* every value was returned by Receive as many times as it was passed to
\* Send; at any time a value is received or buffered as often as appended.
C11_NoLossNoDup ==
  /\ Balanced ~> (AllIdle \/ ~Balanced)
  /\ [](\A v \in Values :
          Count(v, pushed) = Count(v, popped) + Count(v, store))
  /\ []((Balanced /\ AllIdle) =>
          /\ store = <<>>
          /\ \A v \in Values : Count(v, popped) = Count(v, pushed))

\* two consumers were parked at the same time and both were served, with
\* two Sends and two Receives in all
C11_Witness ==
  /\ Balanced
  /\ AllIdle
  /\ Len(popped) = 2
  /\ \E p, q \in Procs :
       /\ p # q
       /\ ret[p].op = "Receive" /\ ret[p].ok /\ seen[p] = "waited"
       /\ ret[q].op = "Receive" /\ ret[q].ok /\ seen[q] = "waited"

(* ================================ C12 ================================= *)
\* C12: read-your-write.  A Get by a caller whose own Send(v) was the last
\* write request the monitor accepted (its Send had returned before it
\* called Get, and no other caller's Send came in between) returns v.
C12_ReadYourWrite ==
  \A p \in Procs :
    (mpc[p] = "idle" /\ mret[p].op = "Get" /\ lastW.who = p)
      => mret[p].val = lastW.val

\* one caller alternated Send(10), Get, Send(55), Get and read 55 at the end
C12_Witness ==
  \E p \in Procs :
    /\ mops = 4
    /\ served = 4
    /\ written = {10, 55}
    /\ lastW = [who |-> p, val |-> 55]
    /\ mpc[p] = "idle"
    /\ mret[p] = MGetRet(55)

(* ================================ C13 ================================= *)
\* C13: value provenance.  Whatever the interleaving of Sends and Gets, the
\* value a Get is answered with is the value of a write request the monitor
\* has accepted before, or the monitor's initial value when it has accepted
\* none yet.
C13_Provenance ==
  [][ Reply =>
        mret'[responeChan].val \in
          (IF written = {} THEN {made.arg} ELSE written) ]_mvars

\* two different values were written and a Get by another caller than the
\* last writer returned one of them
C13_Witness ==
  /\ written = {10, 55}
  /\ \E p \in Procs :
       /\ p # lastW.who
       /\ mret[p].op = "Get"
       /\ mret[p].val \in written

(* ================================ C14 ================================= *)
\* a Close has been called
Closing == stopBy # 0 \/ \E q \in Procs : mpc[q] = "Close_send"
CloseCalls ==
  Cardinality({q \in Procs : mpc[q] = "Close_send"})
    + (IF stopBy # 0 THEN 1 ELSE 0)
Waiting == {p \in Procs : mpc[p] \in {"Get_send", "Send_send"}}

\* C14: progress without deadlock.  As long as no Close is called, every
\* Get and Send that was called returns; and the monitor has accepted
\* exactly one request per Get or Send call that got past its channel send:
\* none is lost and none is accepted twice.
C14_Progress ==
  /\ \A p \in Procs : (mpc[p] # "idle") ~> (mpc[p] = "idle" \/ Closing)
  /\ [](served + Cardinality(Waiting) = mops - CloseCalls)
  /\ []((\A p \in Procs : mpc[p] = "idle") => served = mops - CloseCalls)

\* writers and readers were blocked on the monitor at the same time and
\* all four calls have returned
C14_Witness ==
  /\ ~Closing
  /\ \A p \in Procs : mpc[p] = "idle"
  /\ served = 4
  /\ written = {10, 55}
  /\ Cardinality({p \in Procs : mret[p].op = "Get"}) = 2

(* ================================ C15 ================================= *)
\* C15: once a Close has returned the monitor serves nothing any more: the
\* value held stays as it is, no request is accepted, and every Get or Send
\* that is pending or is called later stays blocked where it is and returns
\* nothing.
C15_AfterClose ==
  [][ stopBy # 0 =>
        /\ data' = data
        /\ served' = served
        /\ loop' = loop
        /\ \A p \in Procs :
             mpc[p] # "idle" => (mpc'[p] = mpc[p] /\ mret'[p] = mret[p]) ]_mvars

\* the caller whose Close returned has then called Send and is blocked, and
\* another caller is blocked in Get
C15_Witness ==
  \E p, q \in Procs :
    /\ stopBy = p
    /\ mpc[p] = "Send_send"
    /\ mpc[q] = "Get_send"
    /\ written # {}

(* ================================ C16 ================================= *)
\* C16: a monitor built by NewMutexWithValue(v0) answers v0 to every Get it
\* serves before it has accepted a write request.
C16_InitialValue ==
  [][ (Reply /\ made.ctor = "NewMutexWithValue" /\ written = {})
        => mret'[responeChan] = MGetRet(made.arg) ]_mvars

\* NewMutexWithValue(-1) followed by a Get that returned -1
C16_Witness ==
  /\ made = [ctor |-> "NewMutexWithValue", arg |-> -1]
  /\ written = {}
  /\ \E p \in Procs : mpc[p] = "idle" /\ mret[p] = MGetRet(-1)

(* ======================== Publisher vocabulary ======================== *)
\* the step in which goroutine p runs call a of a method that takes the
\* exclusive lock, from Lock() granted to Unlock()
Ran(p, a) ==
  /\ \/ Exclusive(p, a)
     \/ (LockTake(p) \/ LockGranted(p)) /\ bcall[p] = a
  /\ bpc'[p] = "idle"

\* the step in which goroutine p's Publish call a, holding the shared lock,
\* looks its topic up
Looked(p, a) ==
  \/ Publish(p, a.topic, a.msg) /\ writer = 0
  \/ PubStart(p) /\ bcall[p] = a

BIdle == \A p \in Procs : bpc[p] = "idle"

(* ================================ C17 ================================= *)
\* CreateTopic("news"), three Subscribe("news"), then one Publish("news", m)
\* that has returned, and no other call
ScenarioB(m) ==
  /\ calls = 5
  /\ BIdle
  /\ Len(mailbox) = 3
  /\ last = Returned(PublishCall("news", m), Nil, <<1, 2, 3>>)

\* C17: broadcast delivery.  Each send of a Publish(name, m) puts m, and
\* nothing else, into the next mailbox of the topic's list; when the Publish
\* returns nil it has sent to every mailbox of the list once, in list order;
\* and after Scenario B (three subscribers with empty mailboxes, one
\* Publish) the first receive from each of the three mailboxes yields m.
C17_Broadcast ==
  /\ [][ \A p \in Procs :
           (PubSend(p) /\ ~bpanic') =>
             LET ch == Head(subscriber[p]) IN
             /\ mailbox'[ch].buf = Append(mailbox[ch].buf, bcall[p].msg)
             /\ \A c \in 1..Len(mailbox) : c # ch => mailbox'[c] = mailbox[c]
             /\ bpc'[p] = "idle" =>
                  /\ last'.call = bcall[p]
                  /\ last'.ret = Nil
                  /\ last'.sent = subscribers[bcall[p].topic] ]_bvars
  /\ [](\A m \in Msgs :
          ScenarioB(m) =>
            \A c \in 1..3 : got[c] \o mailbox[c].buf = <<m>>)

\* Scenario B with "hi", and each of the three subscribers has received it
C17_Witness ==
  /\ ScenarioB("hi")
  /\ got = << <<"hi">>, <<"hi">>, <<"hi">> >>

(* ================================ C18 ================================= *)
\* C18: a Publish whose topic is not in the registry when it looks it up
\* returns "topic not found", and no step of that call changes a mailbox or
\* the registry.
C18_PublishMissing ==
  [][ \A p \in Procs, t \in Topics, m \in Msgs :
        /\ (Looked(p, PublishCall(t, m)) /\ t \notin DOMAIN subscribers) =>
             /\ bpc'[p] = "idle"
             /\ last' = Returned(PublishCall(t, m), TopicNotFound, <<>>)
             /\ UNCHANGED <<subscribers, mailbox>>
        /\ (Publish(p, t, m) /\ writer # 0) =>
             UNCHANGED <<subscribers, mailbox, last>> ]_bvars

\* Publish("sports", "x") has failed on a broker that has topic "news" with
\* a subscriber, whose mailbox is still empty
C18_Witness ==
  /\ last = Returned(PublishCall("sports", "x"), TopicNotFound, <<>>)
  /\ DOMAIN subscribers = {"news"}
  /\ subscribers["news"] = <<1>>
  /\ mailbox = <<MakeChan>>
  /\ got = << <<>> >>

(* ================================ C19 ================================= *)
\* CreateTopic("news"), two Subscribe("news"), then CloseTopic("news") that
\* has returned, and no other call
ScenarioD ==
  /\ calls = 4
  /\ BIdle
  /\ Len(mailbox) = 2
  /\ last = Returned(CloseTopicCall("news"), Nil, <<>>)

\* C19: CloseTopic(name) on a topic of the registry runs with no reader
\* inside, closes every mailbox of the topic's list and removes the topic,
\* all in one step, and returns nil; a receive from a closed, empty mailbox
\* observes end-of-stream; so after Scenario D both mailboxes are closed and
\* empty and the subscribers have received nothing but the end-of-stream.
C19_CloseTopic ==
  /\ [][ \A p \in Procs, t \in Topics :
           (Ran(p, CloseTopicCall(t)) /\ t \in DOMAIN subscribers) =>
             /\ readers = {}
             /\ \A i \in 1..Len(subscribers[t]) :
                  mailbox'[subscribers[t][i]].closed
             /\ t \notin DOMAIN subscribers'
             /\ last' = Returned(CloseTopicCall(t), Nil, <<>>)
             /\ ~bpanic' ]_bvars
  /\ [][ \A c \in 1..Len(mailbox) :
           (Consume(c) /\ mailbox[c].closed /\ mailbox[c].buf = <<>>) =>
             got'[c] = Append(got[c], EndOfStream) ]_bvars
  /\ [](ScenarioD =>
          \A c \in 1..2 :
            /\ mailbox[c] = ChanClose(MakeChan)
            /\ got[c] \in {<<>>, <<EndOfStream>>})

\* Scenario D, both subscribers have observed end-of-stream, and a
\* Publish("news", "hi") made after that has returned "topic not found"
C19_Witness ==
  /\ calls = 5
  /\ BIdle
  /\ closedT = {"news"}
  /\ got = << <<EndOfStream>>, <<EndOfStream>> >>
  /\ last = Returned(PublishCall("news", "hi"), TopicNotFound, <<>>)

(* ================================ C20 ================================= *)
\* C20: from a successful CloseTopic(name) until the next CreateTopic(name)
\* the topic is not in the registry, and every Publish, Subscribe and
\* CloseTopic on that name that runs in between returns "topic not found"
\* and leaves the registry and every mailbox as they are.
C20_ClosedTopicStaysClosed ==
  /\ [](\A t \in closedT : t \notin DOMAIN subscribers)
  /\ [][ \A p \in Procs, t \in closedT :
           /\ \A a \in {SubscribeCall(t), CloseTopicCall(t)} :
                Ran(p, a) =>
                  /\ last' = Returned(a, TopicNotFound, <<>>)
                  /\ UNCHANGED <<subscribers, mailbox>>
           /\ \A m \in Msgs :
                Looked(p, PublishCall(t, m)) =>
                  /\ bpc'[p] = "idle"
                  /\ last' = Returned(PublishCall(t, m), TopicNotFound, <<>>)
                  /\ UNCHANGED <<subscribers, mailbox>> ]_bvars

\* "news" had a subscriber and was closed, "sports" exists, and a second
\* CloseTopic("news") has returned "topic not found"
C20_Witness ==
  /\ closedT = {"news"}
  /\ DOMAIN subscribers = {"sports"}
  /\ mailbox = <<ChanClose(MakeChan)>>
  /\ last = Returned(CloseTopicCall("news"), TopicNotFound, <<>>)

(* ================================ C21 ================================= *)
\* the mailboxes of a list
Members(list) == {list[i] : i \in 1..Len(list)}

\* a list without mailbox c, the others in their order
Without(list, c) == SelectSeq(list, LAMBDA x : x # c)

\* C21: CloseSubscriber(name, mb) with mb in the list of topic name closes
\* mb and no other mailbox, takes mb and nothing else out of that list,
\* keeps the others in their order, keeps every topic and every other
\* topic's list, and returns nil.
C21_CloseSubscriber ==
  [][ \A p \in Procs, t \in Topics, c \in 1..Len(mailbox) :
        (/\ Ran(p, CloseSubscriberCall(t, c))
         /\ t \in DOMAIN subscribers
         /\ c \in Members(Lookup(subscribers, t))) =>
          /\ mailbox'[c] = [buf |-> mailbox[c].buf, closed |-> TRUE]
          /\ ~mailbox[c].closed
          /\ \A d \in 1..Len(mailbox) : d # c => mailbox'[d] = mailbox[d]
          /\ Len(mailbox') = Len(mailbox)
          /\ DOMAIN subscribers' = DOMAIN subscribers
          /\ subscribers'[t] = Without(subscribers[t], c)
          /\ Len(subscribers'[t]) = Len(subscribers[t]) - 1
          /\ \A u \in DOMAIN subscribers :
               u # t => subscribers'[u] = subscribers[u]
          /\ last' = Returned(CloseSubscriberCall(t, c), Nil, <<>>)
          /\ ~bpanic' ]_bvars

\* the second of three subscribers of "news" has been closed
C21_Witness ==
  /\ last = Returned(CloseSubscriberCall("news", 2), Nil, <<>>)
  /\ DOMAIN subscribers = {"news"}
  /\ subscribers["news"] = <<1, 3>>
  /\ mailbox = <<MakeChan, ChanClose(MakeChan), MakeChan>>

(* ================================ C22 ================================= *)
\* C22: CloseSubscriber(name, mb) returns "topic not found" when name is
\* not in the registry and "subscriber not found" when mb is not in the
\* list of name; either way it closes no mailbox and leaves the registry as
\* it is.
C22_CloseSubscriberFails ==
  [][ \A p \in Procs, t \in Topics, c \in 1..Len(mailbox) :
        Ran(p, CloseSubscriberCall(t, c)) =>
          /\ t \notin DOMAIN subscribers =>
               /\ last' = Returned(CloseSubscriberCall(t, c), TopicNotFound, <<>>)
               /\ UNCHANGED <<subscribers, mailbox>>
          /\ (/\ t \in DOMAIN subscribers
              /\ c \notin Members(Lookup(subscribers, t))) =>
               /\ last' = Returned(CloseSubscriberCall(t, c),
                                   SubscriberNotFound, <<>>)
               /\ UNCHANGED <<subscribers, mailbox>> ]_bvars

\* a second CloseSubscriber("news", 1), after the first one closed mailbox 1
\* and took it out of the list
C22_Witness ==
  /\ last = Returned(CloseSubscriberCall("news", 1), SubscriberNotFound, <<>>)
  /\ mailbox[1].closed
  /\ "news" \in DOMAIN subscribers
  /\ subscribers["news"] = <<>>

(* ================================ C23 ================================= *)
\* C23: Subscribe(name) on a topic that is not in the registry returns the
\* nil channel with "topic not found" and changes neither the registry nor
\* a mailbox; on a topic of the registry it makes one new mailbox, empty,
\* open, of capacity 1, puts it at the end of that topic's list, changes no
\* other list and no other mailbox, and returns it.
C23_Subscribe ==
  [][ \A p \in Procs, t \in Topics :
        Ran(p, SubscribeCall(t)) =>
          IF t \notin DOMAIN subscribers
            THEN /\ last' = Returned(SubscribeCall(t), TopicNotFound, <<>>)
                 /\ last'.ret.ch = 0
                 /\ UNCHANGED <<subscribers, mailbox>>
            ELSE LET channel == Len(mailbox) + 1 IN
                 /\ mailbox' = Append(mailbox, [buf |-> <<>>, closed |-> FALSE])
                 /\ MailboxCap = 1
                 /\ \A u \in DOMAIN subscribers :
                      channel \notin Members(subscribers[u])
                 /\ DOMAIN subscribers' = DOMAIN subscribers
                 /\ subscribers'[t] = Append(subscribers[t], channel)
                 /\ \A u \in DOMAIN subscribers :
                      u # t => subscribers'[u] = subscribers[u]
                 /\ last'.call = SubscribeCall(t)
                 /\ last'.ret = [err |-> "nil", ch |-> channel] ]_bvars

\* a second Subscribe("news") has returned mailbox 2, put behind mailbox 1
C23_Witness ==
  /\ last = Returned(SubscribeCall("news"), Subscribed(2), <<>>)
  /\ DOMAIN subscribers = {"news"}
  /\ subscribers["news"] = <<1, 2>>
  /\ mailbox[2] = MakeChan

(* ================================ C24 ================================= *)
\* goroutine p is in Publish's loop at a mailbox that is full
BlockedAtFull(p) ==
  /\ bpc[p] = "send"
  /\ ~mailbox[Head(subscriber[p])].closed
  /\ Len(mailbox[Head(subscriber[p])].buf) = MailboxCap

Sending == {p \in Procs : bpc[p] = "send"}

\* one topic with one subscriber, which has received nothing so far
OneSilentSubscriber ==
  /\ Len(mailbox) = 1
  /\ got[1] = <<>>
  /\ \E t \in DOMAIN subscribers : subscribers[t] = <<1>>

\* C25: once a Publish to a topic with one subscriber has returned, and
\* while the subscriber receives nothing, a second Publish can deliver and
\* return as well: the mailbox, which holds the first message, has room for
\* the second.
C25_TwoPublishesBuffered ==
  (/\ OneSilentSubscriber
   /\ BIdle
   /\ last.call.op = "Publish"
   /\ last.ret = Nil
   /\ last.sent = <<1>>)
    => HasRoom(mailbox[1])

(* ================================ C26 ================================= *)
\* C26: with one subscriber that has not started to receive, all the
\* Publish calls that are in their loop at the same time can return: the
\* mailbox has room for the messages of all of them.
C26_ConcurrentPublishesReturn ==
  (OneSilentSubscriber /\ Cardinality(Sending) >= 2)
    => Len(mailbox[1].buf) + Cardinality(Sending) <= MailboxCap

(* ================================ C27 ================================= *)
\* the mailboxes 1..n in the order they were made
FirstN(n) == [i \in 1..n |-> i]

\* C27: when all the calls so far are one CreateTopic and N Subscribe calls
\* that succeeded, however they overlapped, the topic's list holds the N
\* mailboxes, each once; and a single Publish that returns after them, these
\* being all the calls, has sent to the N mailboxes, and each mailbox yields
\* its message first.
C27_ConcurrentSubscribe ==
  /\ []((Len(mailbox) >= 1 /\ Len(mailbox) = calls - 1) =>
          \E t \in Topics :
            /\ DOMAIN subscribers = {t}
            /\ subscribers[t] = FirstN(Len(mailbox)))
  /\ []((/\ Len(mailbox) >= 1
         /\ Len(mailbox) = calls - 2
         /\ BIdle
         /\ last.call.op = "Publish"
         /\ last.ret = Nil) =>
          /\ last.sent = FirstN(Len(mailbox))
          /\ subscribers[last.call.topic] = FirstN(Len(mailbox))
          /\ \A c \in 1..Len(mailbox) :
               got[c] \o mailbox[c].buf = <<last.call.msg>>)

\* three Subscribe("sports") and then Publish("sports", "x"), whose message
\* waits in each of the three mailboxes
C27_Witness ==
  /\ calls = 5
  /\ BIdle
  /\ Len(mailbox) = 3
  /\ DOMAIN subscribers = {"sports"}
  /\ subscribers["sports"] = <<1, 2, 3>>
  /\ last = Returned(PublishCall("sports", "x"), Nil, <<1, 2, 3>>)
  /\ \A c \in 1..3 : mailbox[c] = ChanSend(MakeChan, "x")

(* ================================ C28 ================================= *)
\* CreateTopic of both topics, one Subscribe to each, and one
\* Publish("news", m) that has returned; mailbox a is the one of "news"
TwoTopics(m, a) ==
  /\ calls = 5
  /\ BIdle
  /\ Len(mailbox) = 2
  /\ DOMAIN subscribers = Topics
  /\ subscribers["news"] = <<a>>
  /\ subscribers["sports"] = <<3 - a>>
  /\ last = Returned(PublishCall("news", m), Nil, <<a>>)

\* C28: topic isolation.  Every send of a Publish(A, m) goes to a mailbox of
\* A's list, which is in no other topic's list, and leaves the registry and
\* the mailboxes of all other topics as they are; so with one subscriber on
\* each of two topics a Publish to "news" reaches the subscriber of "news"
\* and the subscriber of "sports" gets nothing.
C28_TopicIsolation ==
  /\ [][ \A p \in Procs :
           (PubSend(p) /\ ~bpanic') =>
             LET t == bcall[p].topic
                 ch == Head(subscriber[p])
             IN
             /\ t \in DOMAIN subscribers
             /\ ch \in Members(subscribers[t])
             /\ subscribers' = subscribers
             /\ got' = got
             /\ \A u \in DOMAIN subscribers \ {t} :
                  /\ ch \notin Members(subscribers[u])
                  /\ \A c \in Members(subscribers[u]) :
                       mailbox'[c] = mailbox[c] ]_bvars
  /\ [](\A m \in Msgs, a \in 1..2 :
          TwoTopics(m, a) =>
            /\ got[a] \o mailbox[a].buf = <<m>>
            /\ got[3 - a] \o mailbox[3 - a].buf = <<>>)

\* the subscriber of "news" has received "hi" and the mailbox of the
\* subscriber of "sports" is still empty
C28_Witness ==
  /\ TwoTopics("hi", 1)
  /\ got = << <<"hi">>, <<>> >>
  /\ mailbox[2] = MakeChan

(* ================================ C29 ================================= *)
\* the topics whose list holds mailbox c
TopicsOf(c) == {t \in DOMAIN subscribers : c \in Members(subscribers[t])}

\* C29: mailbox lifecycle.  Every mailbox is in the list of at most one
\* topic, and a mailbox leaves its list only when it is closed in the same
\* step: a mailbox that is in no list is closed.
C29_MailboxLifecycle ==
  \A c \in 1..Len(mailbox) :
    /\ Cardinality(TopicsOf(c)) <= 1
    /\ TopicsOf(c) = {} => mailbox[c].closed

(* ================================ C30 ================================= *)
\* C30: when CreateTopic(name) returns, name is in the registry with an
\* empty list, whether it was there before or not and whatever its list
\* held; the other topics and their lists are as before.
C30_CreateTopic ==
  [][ \A p \in Procs, t \in Topics :
        Ran(p, CreateTopicCall(t)) =>
          /\ DOMAIN subscribers' = DOMAIN subscribers \cup {t}
          /\ subscribers'[t] = <<>>
          /\ \A u \in DOMAIN subscribers :
               u # t => subscribers'[u] = subscribers[u]
          /\ last' = Returned(CreateTopicCall(t), Nil, <<>>) ]_bvars

\* CreateTopic("news") has emptied the list of "news", which held mailbox 1,
\* and "sports" still has mailbox 2
C30_Witness ==
  /\ last = Returned(CreateTopicCall("news"), Nil, <<>>)
  /\ Len(mailbox) = 2
  /\ DOMAIN subscribers = Topics
  /\ subscribers["news"] = <<>>
  /\ subscribers["sports"] = <<2>>
  /\ ~mailbox[1].closed

(* ================================ C31 ================================= *)
\* C31: Send reads the closed flag once, on entry.  A Send called on a closed
\* queue returns the closed error and leaves the queue alone; a Send that
\* entered before Close and was parked on a full queue does not read the flag
\* when it wakes: with the queue closed it parks again while the queue is
\* full, and appends its item and returns success once there is room.
C31_BestEffortClose ==
  [][ \A p \in Procs :
        /\ \A v \in Values :
             (Send(p, v) /\ close) =>
               (store' = store /\ ret'[p] = SendClosed /\ pc'[p] = "idle")
        /\ (SendWake(p) /\ close) =>
             IF Len(store) = capacity
             THEN store' = store /\ pc'[p] = "Send_wait"
             ELSE /\ store' = Append(store, msg[p])
                  /\ Len(store') = Len(store) + 1
                  /\ ret'[p] = SendOk
                  /\ pc'[p] = "idle" ]_vars

\* the queue is closed and holds an item that a Send which was parked when
\* Close ran has appended after the close, returning success
C31_Witness ==
  /\ close
  /\ closedAt >= 0
  /\ Len(pushed) > closedAt
  /\ Len(store) > 0
  /\ \E p \in Procs :
       pc[p] = "idle" /\ seen[p] = "closed" /\ ret[p] = SendOk

(* ================================ C32 ================================= *)
\* C32: on a queue constructed with capacity 0 a Send appends its item and
\* returns success only while some Receive is inside its widen window, and
\* the queue never holds more items than there are Receive calls that have
\* widened and not yet narrowed.
C32_HandOffNeedsReceiver ==
  [][ cap0 = 0 =>
        /\ Len(store') <= Cardinality(InWindow')
        /\ \A p \in Procs :
             ( /\ (\E v \in Values : Send(p, v)) \/ SendWake(p)
               /\ (pushed' # pushed \/ ret'[p] = SendOk) )
             => /\ InWindow # {}
                /\ Len(store) < Cardinality(InWindow) ]_vars

\* capacity 0: a Send has handed its item to the queue and returned success
\* while the one Receive that widened has not yet narrowed
C32_Witness ==
  /\ cap0 = 0
  /\ Len(store) = 1
  /\ Cardinality(InWindow) = 1
  /\ \E p \in Procs : pc[p] = "idle" /\ ret[p] = SendOk

(* ================================ C33 ================================= *)
\* C33: a Receive on an open queue widens the capacity by one, waits while
\* the queue is empty, then narrows the capacity by one and dequeues the
\* front item, in that order.  So the capacity is the constructed capacity
\* plus the number of Receive calls between widen and narrow, it is the
\* constructed capacity when no Receive is in progress, and the queue never
\* holds more items than the current capacity.
C33_WidenNarrow ==
  [][ /\ capacity' = cap0' + Cardinality(InWindow')
      /\ NoWindow' => capacity' = cap0'
      /\ Len(store') <= capacity'
      /\ \A p \in Procs :
           /\ (Receive(p) /\ ~close) =>
                IF store = <<>>
                THEN /\ capacity' = capacity + 1
                     /\ pc'[p] = "Recv_wait"
                     /\ store' = store
                ELSE /\ capacity' = capacity
                     /\ pc'[p] = "idle"
                     /\ store' = Tail(store)
                     /\ ret'[p] = RecvOk(Head(store))
           /\ RecvWake(p) =>
                IF store = <<>>
                THEN /\ capacity' = capacity
                     /\ pc'[p] = "Recv_wait"
                     /\ store' = store
                ELSE /\ capacity' = capacity - 1
                     /\ pc'[p] = "idle"
                     /\ store' = Tail(store)
                     /\ ret'[p] = RecvOk(Head(store)) ]_vars

\* two Receive calls are between widen and narrow on a queue constructed
\* with capacity 1, so the capacity is 3, and a third Receive that had
\* widened has narrowed and returned an item
C33_Witness ==
  /\ cap0 = 1
  /\ Cardinality(InWindow) = 2
  /\ capacity = 3
  /\ \E p \in Procs :
       /\ pc[p] = "idle"
       /\ seen[p] # "direct"
       /\ ret[p].op = "Receive"
       /\ ret[p].ok

(* ================================ C34 ================================= *)
\* the value of the write request the monitor accepted last, or the value
\* the monitor was constructed with when it has accepted none
Latest == IF lastW = NoWrite THEN made.arg ELSE lastW.val

\* C34: the monitor handles one request at a time: it accepts a request only
\* when it is at its select with no other request in hand, and by then the
\* last accepted write has been stored.  So a Get is answered with the value
\* of the most recent Send accepted before the Get's own request was accepted
\* (the initial value if there was none): callers see the requests in the
\* order the monitor accepted them.
C34_Serialized ==
  [][ /\ \A p \in Procs :
           (SelectRead(p) \/ SelectWrite(p) \/ SelectStop(p)) =>
             /\ loop = "select"
             /\ responeChan = 0
             /\ \A q \in Procs : mpc[q] # "Get_recv"
             /\ data = Latest
      /\ \A p \in Procs : SelectRead(p) => (loop' = "reply" /\ lastW' = lastW)
      /\ Reply =>
           /\ Cardinality({q \in Procs : mpc[q] = "Get_recv"}) = 1
           /\ mret'[responeChan] = MGetRet(Latest)
           /\ loop' = "select" ]_mvars

\* Send(10), a Get that returned 10, Send(55), a Get by another caller that
\* returned 55: each Get saw the write accepted last before it
C34_Witness ==
  /\ written = {10, 55}
  /\ lastW.val = 55
  /\ loop = "select"
  /\ \E p, q \in Procs :
       /\ p # q
       /\ mpc[p] = "idle" /\ mret[p] = MGetRet(55)
       /\ mpc[q] = "idle" /\ mret[q] = MGetRet(10)

(* ================================ C35 ================================= *)
\* C35: a Publish that is blocked at a full mailbox holds the shared lock.
\* While it is blocked, a CreateTopic, Subscribe, CloseTopic or
\* CloseSubscriber call waits for the lock: no step changes the registry,
\* makes a mailbox or closes one.
C35_BlockedPublishHoldsLock ==
  [][ \A p \in Procs :
        BlockedAtFull(p) =>
          /\ p \in readers
          /\ subscribers' = subscribers
          /\ Len(mailbox') = Len(mailbox)
          /\ \A c \in 1..Len(mailbox) : mailbox'[c].closed = mailbox[c].closed
          /\ \A q \in Procs :
               (bpc[q] = "idle" /\ bpc'[q] # "idle") =>
                 bpc'[q] \in {"Lock_wait", "Lock_mutex", "RLock", "send"}
          /\ \A q \in Procs :
               bpc[q] \in {"Lock_wait", "Lock_mutex"} => bpc'[q] # "idle" ]_bvars

\* a Publish is blocked at a full mailbox and a CloseTopic of its topic,
\* called meanwhile, waits for the lock: the mailbox is open and registered
C35_Witness ==
  \E p, q \in Procs :
    /\ BlockedAtFull(p)
    /\ bpc[q] = "Lock_wait"
    /\ bcall[q] = CloseTopicCall(bcall[p].topic)
    /\ bcall[p].topic \in DOMAIN subscribers
    /\ ~mailbox[1].closed

(* ================================ C36 ================================= *)
\* what the subscriber of mailbox c has received or will receive next
Inbox(c) == got[c] \o mailbox[c].buf

\* C36: publishes to one topic serialize.  Of two Publish calls on the same
\* topic that are in their loops together, one has not started to deliver
\* while the other has delivered to some mailboxes and not to all; so with
\* two subscribers on a topic and two Publish calls, the two subscribers do
\* not get the two messages in opposite orders.
C36_SameTopicSerialize ==
  /\ \A p, q \in Procs :
       (/\ p # q
        /\ bpc[p] = "send"
        /\ bpc[q] = "send"
        /\ bcall[p].topic = bcall[q].topic)
         => (delivered[p] = <<>> \/ delivered[q] = <<>>)
  /\ (calls = 5 /\ Len(mailbox) = 2) =>
       \A m1, m2 \in Msgs :
         ~(Inbox(1) = <<m1, m2>> /\ Inbox(2) = <<m2, m1>> /\ m1 # m2)

(* ================================ C37 ================================= *)
\* the mailboxes that are in the list of some topic
Registered == UNION {Members(subscribers[t]) : t \in DOMAIN subscribers}

\* C37: no send on a closed mailbox.  The lists of the registry hold open
\* mailboxes only; a Publish in its loop holds the shared lock and every
\* mailbox it still has to send to is open and registered; so no send of a
\* Publish finds its mailbox closed, whatever CloseTopic and CloseSubscriber
\* calls run before, between or around the Publish calls.
C37_NoSendOnClosed ==
  [][ /\ \A c \in Registered' : ~mailbox'[c].closed
      /\ \A p \in Procs :
           bpc'[p] = "send" =>
             /\ p \in readers'
             /\ Members(subscriber'[p]) \subseteq Registered'
      /\ \A p \in Procs :
           PubSend(p) =>
             /\ ~mailbox[Head(subscriber[p])].closed
             /\ ~bpanic' ]_bvars

\* CloseSubscriber has closed mailbox 1 of a topic with two subscribers and
\* a Publish to the topic, returning after it, has sent to mailbox 2 only
C37_Witness ==
  /\ Len(mailbox) = 2
  /\ mailbox[1].closed
  /\ mailbox[1].buf = <<>>
  /\ ~mailbox[2].closed
  /\ last.call.op = "Publish"
  /\ last.ret = Nil
  /\ last.sent = <<2>>

(* ================================ C38 ================================= *)
\* C38: no mailbox is closed twice.  A CloseTopic or CloseSubscriber call
\* closes only mailboxes that were open, and a closed mailbox stays as it
\* was closed: a CloseSubscriber with a mailbox that is already closed
\* closes nothing and returns an error, a CloseTopic after a CloseSubscriber
\* closes the remaining mailboxes only, and a CloseTopic of a topic created
\* again after a CloseTopic does not reach the mailboxes closed before.
C38_NoDoubleClose ==
  [][ /\ ~bpanic'
      /\ \A p \in Procs, t \in Topics :
           (Ran(p, CloseTopicCall(t)) /\ t \in DOMAIN subscribers) =>
             \A c \in Members(subscribers[t]) :
               ~mailbox[c].closed /\ mailbox'[c].closed
      /\ \A p \in Procs, t \in Topics, c \in 1..Len(mailbox) :
           (Ran(p, CloseSubscriberCall(t, c)) /\ mailbox[c].closed) =>
             /\ mailbox' = mailbox
             /\ last'.ret \in {TopicNotFound, SubscriberNotFound}
      /\ \A c \in 1..Len(mailbox) :
           mailbox[c].closed =>
             /\ mailbox'[c].closed
             /\ \A p \in Procs, t \in Topics :
                  (Ran(p, CloseTopicCall(t)) /\ t \in DOMAIN subscribers) =>
                    c \notin Members(subscribers[t]) ]_bvars

\* CloseSubscriber was called a second time with mailbox 1, which the first
\* call had closed and taken out of the list of a topic that is still there:
\* it returned "subscriber not found"
C38_Witness ==
  /\ Len(mailbox) >= 1
  /\ mailbox[1].closed
  /\ ~bpanic
  /\ \E t \in DOMAIN subscribers :
       last = Returned(CloseSubscriberCall(t, 1), SubscriberNotFound, <<>>)

(* ================================ C39 ================================= *)
\* C39: broker liveness with subscribers that keep receiving.  Every call
\* that is under way returns; and once no topic is left in the registry, the
\* receive loop of every subscriber, whatever its mailbox, comes to its end.
C39_BrokerLiveness ==
  /\ \A p \in Procs : (bpc[p] # "idle") ~> (bpc[p] = "idle")
  /\ \A c \in 1..MaxCalls :
       (c <= Len(mailbox) /\ DOMAIN subscribers = {})
         ~> (c <= Len(mailbox) /\ Ended(got[c]))

(* ================================ C40 ================================= *)
\* C40: a message that is in a mailbox when CloseTopic or CloseSubscriber
\* closes it is not lost.  The close leaves the buffer as it is; a receive
\* from a closed mailbox that holds a message returns that message and is
\* not the end of the loop; the end-of-stream is observed only by a receive
\* that finds the mailbox closed and empty.
C40_BufferedSurvivesClose ==
  [][ /\ \A c \in 1..Len(mailbox) :
           (~mailbox[c].closed /\ mailbox'[c].closed) =>
             /\ mailbox'[c].buf = mailbox[c].buf
             /\ got'[c] = got[c]
      /\ \A c \in 1..Len(mailbox) :
           (Consume(c) /\ mailbox[c].closed) =>
             IF mailbox[c].buf # <<>>
               THEN /\ got'[c] = Append(got[c], Head(mailbox[c].buf))
                    /\ mailbox'[c].buf = Tail(mailbox[c].buf)
                    /\ ~Ended(got'[c])
               ELSE /\ got'[c] = Append(got[c], EndOfStream)
                    /\ mailbox'[c] = mailbox[c]
      /\ \A c \in 1..Len(mailbox) :
           (Ended(got'[c]) /\ ~Ended(got[c])) =>
             (mailbox[c].closed /\ mailbox[c].buf = <<>>) ]_bvars

\* the only calls were CreateTopic, Subscribe, Publish of "hi" and a
\* CloseTopic that returned last; the subscriber of the closed mailbox has
\* received "hi" and after it the end-of-stream
C40_Witness ==
  /\ calls = 4
  /\ Len(mailbox) = 1
  /\ mailbox[1].closed
  /\ got[1] = <<"hi", EndOfStream>>
  /\ last.call.op = "CloseTopic"
  /\ last.ret = Nil

=============================================================================
